---- MODULE Spec2Model ----
(***************************************************************************)
(* Model of the freedompress-shop cart store (stores/cart: useCartStore,   *)
(* cartApi, getCSRFToken) and of generateCSRFToken from the security       *)
(* middleware.  The store is a zustand state holder {cart, isLoading,      *)
(* error}; every store action is an async function running on the          *)
(* JavaScript event loop.  The model keeps the synchronous part of an      *)
(* action atomic, runs continuations of `await getCSRFToken()` as          *)
(* microtasks in FIFO order, and lets network settlements arrive in any    *)
(* order once the microtask queue is empty.                                *)
(***************************************************************************)
EXTENDS Integers, Sequences, FiniteSets, TLC

(* ------------------------------ bounds --------------------------------- *)
\* number of store actions invoked in one behaviour
MaxCalls == 2
\* cart item ids passed to updateQuantity / removeItem
MaxItemId == 1
\* largest quantity passed to addItem / updateQuantity
MaxQty == 1
\* number of line items handed to calculateOrderTotals
MaxLines == 2
\* largest quantity of a line item
MaxLineQty == 3

ItemIds == 1..MaxItemId
Quantities == -1..MaxQty
Codes == {"", "SAVE10"}

(* --------------------------- values ------------------------------------ *)
\* cart: Cart | null  -- the null cart is the record with id 0
NoCart == [id |-> 0, items |-> <<>>, total |-> 0]
\* error: string | null
NoError == "null"

\* Cart snapshots the server can answer with (Cart / CartItem of the types)
CartItem(i, q) == [id |-> i, quantity |-> q]
Snapshots ==
  { [id |-> 1, items |-> <<>>, total |-> 0],
    [id |-> 1, items |-> <<CartItem(1, 2)>>, total |-> 20],
    [id |-> 1, items |-> <<CartItem(1, 1), CartItem(2, 3)>>, total |-> 45] }

\* messages of the Errors thrown by the collaborators (not by this code)
NetworkCause == "TypeError: Failed to fetch"
JsonCause == "SyntaxError: Unexpected token"

SecretRequiredMsg == "CSRF_SECRET environment variable is required"
SecurityConfigMsg == "Security configuration error"

VARIABLES
  cart,        \* store state: Cart | null
  isLoading,   \* store state
  error,       \* store state: message | null
  csrfSecret,  \* process.env.CSRF_SECRET is set
  pending,     \* invocations that have not settled, in issue order
  draining,    \* the microtask queue is being run
  issued,      \* number of store actions invoked so far
  tokens,      \* number of CSRF tokens created so far
  last,        \* history: the step taken last
  lastOk,      \* history: issue number and result of the last successful settlement
  maxOkSeq,    \* history: largest issue number that settled successfully
  pricing      \* one call of the pricing utilities: arguments and result

cartVars == <<cart, isLoading, error, csrfSecret, pending, draining, issued,
              tokens, last, lastOk, maxOkSeq>>

State == [cart |-> cart, isLoading |-> isLoading, error |-> error]

(* ------------------------ security middleware -------------------------- *)
\* generateCSRFToken(secret?): throws when no secret is configured,
\* otherwise csrfTokens.create(secret), a new token on every call
generateCSRFToken(secret, n) ==
  IF ~secret
    THEN [threw |-> TRUE, isError |-> TRUE, message |-> SecretRequiredMsg, token |-> 0]
    ELSE [threw |-> FALSE, isError |-> FALSE, message |-> "", token |-> n + 1]

\* variant: the catch swallows the failure and no token is returned
getCSRFToken_swallow(secret, n) ==
  LET g == generateCSRFToken(secret, n) IN
  IF g.threw
    THEN [threw |-> FALSE, isError |-> FALSE, message |-> "", token |-> 0]
    ELSE g

\* getCSRFToken: logs the cause and rethrows 'Security configuration error'
getCSRFToken(secret, n) ==
  LET g == generateCSRFToken(secret, n) IN
  IF g.threw
    THEN [threw |-> TRUE, isError |-> TRUE, message |-> SecurityConfigMsg, token |-> 0]
    ELSE g

(* ------------------------------ cartApi -------------------------------- *)
NoReq == [method |-> "none", path |-> "none", item |-> 0, csrf |-> 0,
          quantity |-> 0, code |-> ""]

\* the cartApi functions that call getCSRFToken before fetch
NeedsToken(api) == api # "getCart"

\* the fetch() each cartApi function issues
Request(api, item, qty, code, token) ==
  CASE api = "getCart" ->
         [NoReq EXCEPT !.method = "GET", !.path = "/api/shop/cart"]
    [] api = "addItem" ->
         [NoReq EXCEPT !.method = "POST", !.path = "/api/shop/cart/items",
                       !.item = item, !.quantity = qty, !.csrf = token]
    [] api = "updateQuantity" ->
         [NoReq EXCEPT !.method = "PUT", !.path = "/api/shop/cart/items/id",
                       !.item = item, !.quantity = qty, !.csrf = token]
    [] api = "removeItem" ->
         [NoReq EXCEPT !.method = "DELETE", !.path = "/api/shop/cart/items/id",
                       !.item = item, !.csrf = token]
    [] api = "clearCart" ->
         [NoReq EXCEPT !.method = "DELETE", !.path = "/api/shop/cart",
                       !.csrf = token]
    [] api = "applyDiscount" ->
         [NoReq EXCEPT !.method = "POST", !.path = "/api/shop/cart/discount",
                       !.code = code, !.csrf = token]
    [] api = "removeDiscount" ->
         [NoReq EXCEPT !.method = "DELETE", !.path = "/api/shop/cart/discount",
                       !.csrf = token]

\* message of the Error each cartApi function throws on !response.ok
FailMsg(api) ==
  CASE api = "getCart" -> "Failed to fetch cart"
    [] api = "addItem" -> "Failed to add item to cart"
    [] api = "updateQuantity" -> "Failed to update item quantity"
    [] api = "removeItem" -> "Failed to remove item from cart"
    [] api = "clearCart" -> "Failed to clear cart"
    [] api = "applyDiscount" -> "Failed to apply discount"
    [] api = "removeDiscount" -> "Failed to remove discount"

\* how a fetch can settle: an OK response, a non-OK response, a rejected
\* fetch promise, an OK response whose body response.json() cannot parse
Outcomes(api) ==
  IF api = "clearCart" THEN {"ok", "notok", "reject"}
                       ELSE {"ok", "notok", "reject", "badjson"}

\* what the cartApi function returns or throws once its fetch has settled
ApiResult(api, outcome, snapshot) ==
  CASE outcome = "reject" ->
         [threw |-> TRUE, isError |-> TRUE, message |-> NetworkCause, value |-> NoCart]
    [] outcome = "notok" ->
         [threw |-> TRUE, isError |-> TRUE, message |-> FailMsg(api), value |-> NoCart]
    [] outcome = "badjson" ->
         [threw |-> TRUE, isError |-> TRUE, message |-> JsonCause, value |-> NoCart]
    [] outcome = "ok" ->
         [threw |-> FALSE, isError |-> FALSE, message |-> "",
          value |-> IF api = "clearCart" THEN NoCart ELSE snapshot]

\* what the cartApi function throws when getCSRFToken threw
TokenFailure(tok) ==
  [threw |-> TRUE, isError |-> tok.isError, message |-> tok.message, value |-> NoCart]

(* ---------------------------- useCartStore ------------------------------ *)
\* variant: the loading flag is not raised
SetStart_noLoading(st) == [st EXCEPT !.error = NoError]

\* variant: the loading flag is toggled instead of raised
SetStart_toggle(st) == [st EXCEPT !.isLoading = ~st.isLoading, !.error = NoError]

\* variant: the previous error is not cleared
SetStart_keepError(st) == [st EXCEPT !.isLoading = TRUE]

\* set((state) => { state.isLoading = true; state.error = null })
SetStart(st) == [st EXCEPT !.isLoading = TRUE, !.error = NoError]

\* variant: the loading flag is not lowered on success
SetSuccess_keepLoading(st, c) == [st EXCEPT !.cart = c]

\* variant: the returned items are merged into the previous cart's items
SetSuccess_merge(st, c) ==
  [st EXCEPT !.cart = [c EXCEPT !.items = st.cart.items \o c.items],
             !.isLoading = FALSE]

\* set((state) => { state.cart = cart; state.isLoading = false })
SetSuccess(st, c) == [st EXCEPT !.cart = c, !.isLoading = FALSE]

\* variant: a failure also drops the cart
SetFailure_dropCart(st, e, fallback) ==
  [st EXCEPT !.cart = NoCart,
             !.error = IF e.isError THEN e.message ELSE fallback,
             !.isLoading = FALSE]

\* set((state) => { state.error = error instanceof Error ? error.message
\*                  : fallback; state.isLoading = false })
SetFailure(st, e, fallback) ==
  [st EXCEPT !.error = IF e.isError THEN e.message ELSE fallback,
             !.isLoading = FALSE]

\* the try/catch around the awaited cartApi call, per store action
fetchCart_done(st, res) ==
  IF res.threw THEN SetFailure(st, res, "Failed to fetch cart")
               ELSE SetSuccess(st, res.value)

addItem_done(st, res) ==
  IF res.threw THEN SetFailure(st, res, "Failed to add item to cart")
               ELSE SetSuccess(st, res.value)

removeItem_done(st, res) ==
  IF res.threw THEN SetFailure(st, res, "Failed to remove item from cart")
               ELSE SetSuccess(st, res.value)

\* quantity <= 0: `await get().removeItem(itemId); return` -- removeItem
\* catches its own errors, so nothing of updateQuantity runs afterwards
updateQuantity_done(st, quantity, res) ==
  IF quantity <= 0
    THEN removeItem_done(st, res)
    ELSE IF res.threw THEN SetFailure(st, res, "Failed to update item quantity")
                      ELSE SetSuccess(st, res.value)

\* variant: the cart is not emptied on success
clearCart_done_keep(st, res) ==
  IF res.threw THEN SetFailure(st, res, "Failed to clear cart")
               ELSE SetSuccess(st, st.cart)

clearCart_done(st, res) ==
  IF res.threw THEN SetFailure(st, res, "Failed to clear cart")
               ELSE SetSuccess(st, NoCart)

applyDiscount_done(st, res) ==
  IF res.threw THEN SetFailure(st, res, "Failed to apply discount")
               ELSE SetSuccess(st, res.value)

removeDiscount_done(st, res) ==
  IF res.threw THEN SetFailure(st, res, "Failed to remove discount")
               ELSE SetSuccess(st, res.value)

\* variant: a generation guard drops the result of an invocation that was
\* issued before one that has already succeeded
Done_sequenced(r, st, res) ==
  IF ~res.threw /\ r.seq < maxOkSeq
    THEN [st EXCEPT !.isLoading = FALSE]
    ELSE CASE r.action = "fetchCart" -> fetchCart_done(st, res)
           [] r.action = "addItem" -> addItem_done(st, res)
           [] r.action = "updateQuantity" -> updateQuantity_done(st, r.qty, res)
           [] r.action = "removeItem" -> removeItem_done(st, res)
           [] r.action = "clearCart" -> clearCart_done(st, res)
           [] r.action = "applyDiscount" -> applyDiscount_done(st, res)
           [] r.action = "removeDiscount" -> removeDiscount_done(st, res)

\* the continuation of the store action that invocation r belongs to
Done(r, st, res) ==
  CASE r.action = "fetchCart" -> fetchCart_done(st, res)
    [] r.action = "addItem" -> addItem_done(st, res)
    [] r.action = "updateQuantity" -> updateQuantity_done(st, r.qty, res)
    [] r.action = "removeItem" -> removeItem_done(st, res)
    [] r.action = "clearCart" -> clearCart_done(st, res)
    [] r.action = "applyDiscount" -> applyDiscount_done(st, res)
    [] r.action = "removeDiscount" -> removeDiscount_done(st, res)

\* variant: only a negative quantity is turned into a remove
updateQuantity_api_strict(quantity) ==
  IF quantity < 0 THEN "removeItem" ELSE "updateQuantity"

\* the cartApi function updateQuantity ends up calling
updateQuantity_api(quantity) ==
  IF quantity <= 0 THEN "removeItem" ELSE "updateQuantity"

(* ------------------------------ selectors ------------------------------ *)
\* items.reduce((total, item) => total + item.quantity, 0)
RECURSIVE ReduceQuantity(_, _)
ReduceQuantity(items, total) ==
  IF items = <<>> THEN total
  ELSE ReduceQuantity(Tail(items), total + Head(items).quantity)

\* useCart: state.cart
useCart(st) == st.cart

\* useCartItems: state.cart?.items || []
useCartItems(st) == IF st.cart = NoCart THEN <<>> ELSE st.cart.items

\* useCartTotal: state.cart?.total || 0
useCartTotal(st) ==
  IF st.cart = NoCart THEN 0
  ELSE IF st.cart.total = 0 THEN 0 ELSE st.cart.total

\* variant: the number of lines is counted, not their quantities
useCartItemCount_lines(st) ==
  IF st.cart = NoCart THEN 0 ELSE Len(st.cart.items)

\* useCartItemCount: state.cart?.items.reduce(...) || 0
useCartItemCount(st) ==
  IF st.cart = NoCart THEN 0
  ELSE IF ReduceQuantity(st.cart.items, 0) = 0 THEN 0
       ELSE ReduceQuantity(st.cart.items, 0)

\* useCartLoading: state.isLoading
useCartLoading(st) == st.isLoading

\* useCartError: state.error
useCartError(st) == st.error

(* --------------------------- pricing utilities ------------------------- *)
\* Amounts are exact decimals counted in millionths of the currency unit;
\* tax rates are counted in thousandths.  currency.js exists to hide the
\* binary representation error of JavaScript numbers, which this arithmetic
\* does not have.
Unit == 1000000
\* currency.js precision 2: one cent
Cent == 10000
\* a tax rate of 1
RateUnit == 1000
\* an optional argument that is not passed
Absent == -1

Min(a, b) == IF a <= b THEN a ELSE b

\* Math.round of the fraction num / den (den > 0): halves go up
MathRound(num, den) == (2 * num + den) \div (2 * den)

\* currency(x).intValue: Math.round((x * 100).toFixed(4)), in cents.  At
\* this resolution x * 100 has at most four decimals, toFixed(4) keeps it.
currency_intValue(x) == MathRound(x, Cent)

\* currency(x).value
currency(x) == currency_intValue(x) * Cent

\* calculateTax: currency(subtotal).multiply(taxRate).value -- the subtotal
\* is rounded to cents, multiplied, and the product rounded to cents
calculateTax(subtotal, taxRate) ==
  MathRound(currency_intValue(subtotal) * taxRate, RateUnit) * Cent

\* variant: a subtotal equal to the threshold still pays shipping
calculateShipping_strict(subtotal, shippingRate, freeShippingThreshold) ==
  LET threshold == IF freeShippingThreshold = Absent THEN 0
                   ELSE freeShippingThreshold
  IN IF threshold > 0 /\ subtotal > threshold THEN 0 ELSE shippingRate

\* calculateShipping(subtotal, shippingRate, freeShippingThreshold = 0)
calculateShipping(subtotal, shippingRate, freeShippingThreshold) ==
  LET threshold == IF freeShippingThreshold = Absent THEN 0
                   ELSE freeShippingThreshold
  IN IF threshold > 0 /\ subtotal >= threshold THEN 0 ELSE shippingRate

\* variant: the quantity of a line is ignored
RECURSIVE ReduceSubtotal_prices(_, _)
ReduceSubtotal_prices(items, sum) ==
  IF items = <<>> THEN sum
  ELSE ReduceSubtotal_prices(Tail(items), sum + Head(items).price)

\* items.reduce((sum, item) => sum + (item.price * item.quantity), 0)
RECURSIVE ReduceSubtotal(_, _)
ReduceSubtotal(items, sum) ==
  IF items = <<>> THEN sum
  ELSE ReduceSubtotal(Tail(items),
                      sum + (Head(items).price * Head(items).quantity))

\* variant: the requested discount is not capped
DiscountOf_uncapped(discountAmount, subtotal) == discountAmount

\* variant: the larger of the two is taken
DiscountOf_max(discountAmount, subtotal) ==
  IF discountAmount >= subtotal THEN discountAmount ELSE subtotal

\* Math.min(discountAmount, subtotal)
DiscountOf(discountAmount, subtotal) == Min(discountAmount, subtotal)

\* variant: the shipping is left out of the total
TotalOf_noShipping(subtotal, tax, shipping, discount) ==
  subtotal + tax - discount

\* subtotal + tax + shipping - discount
TotalOf(subtotal, tax, shipping, discount) ==
  subtotal + tax + shipping - discount

\* calculateOrderTotals(items, taxRate = 0, shippingRate = 0,
\* discountAmount = 0); calculateShipping is called without a threshold
calculateOrderTotals(items, taxRate, shippingRate, discountAmount) ==
  LET subtotal == ReduceSubtotal(items, 0)
      tax == calculateTax(subtotal, taxRate)
      shipping == calculateShipping(subtotal, shippingRate, Absent)
      discount == DiscountOf(discountAmount, subtotal)
      total == TotalOf(subtotal, tax, shipping, discount)
  IN [subtotal |-> currency(subtotal),
      tax |-> currency(tax),
      shipping |-> currency(shipping),
      discount |-> currency(discount),
      total |-> currency(total)]

NoTotals == [subtotal |-> 0, tax |-> 0, shipping |-> 0, discount |-> 0,
             total |-> 0]

NoPricing == [phase |-> "idle", items |-> <<>>, taxRate |-> 0,
              shippingRate |-> 0, discountAmount |-> 0,
              freeShippingThreshold |-> Absent, totals |-> NoTotals,
              shipping |-> 0]

(* -------------------- API security middleware -------------------------- *)
\* Strings are sequences of characters; undefined is the one-element
\* sequence below, the empty string is <<>>.
Undefined == <<"undefined">>
\* a number that is undefined
NoNumber == -1000000
Falsy(s) == s = Undefined \/ s = <<>>

\* res.status(s).json({error: e, code: c})
Response(status, message, code) ==
  [status |-> status, error |-> message, code |-> code]

RECURSIVE ReplaceEach(_, _)
ReplaceEach(s, i) ==
  IF i > Len(s) THEN <<>>
  ELSE (CASE s[i] = "&" -> <<"&", "a", "m", "p", ";">>
          [] s[i] = "<" -> <<"&", "l", "t", ";">>
          [] s[i] = ">" -> <<"&", "g", "t", ";">>
          [] s[i] = "\"" -> <<"&", "q", "u", "o", "t", ";">>
          [] s[i] = "'" -> <<"&", "#", "x", "2", "7", ";">>
          [] OTHER -> <<s[i]>>) \o ReplaceEach(s, i + 1)

RECURSIVE TrimStart(_)
TrimStart(s) == IF s # <<>> /\ Head(s) = " " THEN TrimStart(Tail(s)) ELSE s

RECURSIVE TrimEnd(_)
TrimEnd(s) ==
  IF s # <<>> /\ s[Len(s)] = " " THEN TrimEnd(SubSeq(s, 1, Len(s) - 1)) ELSE s

Trim(s) == TrimEnd(TrimStart(s))

\* sanitizeInput on a string: escape & < > " ' and trim
sanitizeString(s) == IF s = Undefined THEN s ELSE Trim(ReplaceEach(s, 1))

\* sanitizeInput on the request body, an object whose string fields are
\* name, description and slug; numbers are returned as they are
sanitizeInput(body) ==
  [body EXCEPT !.name = sanitizeString(@),
               !.description = sanitizeString(@),
               !.slug = sanitizeString(@)]

\* req.body is undefined (a request without a body)
NoBody == [present |-> FALSE, name |-> Undefined, description |-> Undefined,
           slug |-> Undefined, price |-> NoNumber, status |-> ""]

\* withRateLimit: limiter.check throws when the bucket is exhausted
withRateLimit(limited) ==
  IF limited
    THEN [ret |-> FALSE,
          sent |-> <<Response(429, "Rate limit exceeded. Please try again later.",
                              "RATE_LIMIT_EXCEEDED")>>]
    ELSE [ret |-> TRUE, sent |-> <<>>]

\* csrfTokens.verify(secret, token): true for a token created from the
\* secret, false for any other well-formed token; it may throw
csrfTokens_verify(token) ==
  CASE token = "issued" -> [threw |-> FALSE, value |-> TRUE]
    [] token = "forged" -> [threw |-> FALSE, value |-> FALSE]
    [] OTHER -> [threw |-> TRUE, value |-> FALSE]

SafeMethods == {"GET", "HEAD", "OPTIONS"}

\* variant: the token is looked at only when it is present
withCSRFProtection_lenient(method, secret, token) ==
  IF ~secret
    THEN [ret |-> FALSE,
          sent |-> <<Response(500, "Server configuration error", "CSRF_SECRET_MISSING")>>]
  ELSE IF method \in SafeMethods \/ token = ""
    THEN [ret |-> TRUE, sent |-> <<>>]
  ELSE LET v == csrfTokens_verify(token) IN
    IF v.threw
      THEN [ret |-> FALSE,
            sent |-> <<Response(403, "CSRF token verification failed",
                                "CSRF_TOKEN_VERIFICATION_FAILED")>>]
    ELSE IF ~v.value
      THEN [ret |-> FALSE,
            sent |-> <<Response(403, "Invalid CSRF token", "CSRF_TOKEN_INVALID")>>]
    ELSE [ret |-> TRUE, sent |-> <<>>]

\* withCSRFProtection(req, res): secret is process.env.CSRF_SECRET being
\* set, token the x-csrf-token header ("" when the header is missing)
withCSRFProtection(method, secret, token) ==
  IF ~secret
    THEN [ret |-> FALSE,
          sent |-> <<Response(500, "Server configuration error", "CSRF_SECRET_MISSING")>>]
  ELSE IF method \in SafeMethods
    THEN [ret |-> TRUE, sent |-> <<>>]
  ELSE IF token = ""
    THEN [ret |-> FALSE,
          sent |-> <<Response(403, "CSRF token missing", "CSRF_TOKEN_MISSING")>>]
  ELSE LET v == csrfTokens_verify(token) IN
    IF v.threw
      THEN [ret |-> FALSE,
            sent |-> <<Response(403, "CSRF token verification failed",
                                "CSRF_TOKEN_VERIFICATION_FAILED")>>]
    ELSE IF ~v.value
      THEN [ret |-> FALSE,
            sent |-> <<Response(403, "Invalid CSRF token", "CSRF_TOKEN_INVALID")>>]
    ELSE [ret |-> TRUE, sent |-> <<>>]

\* validateIP: in production the loopback address and the private
\* networks 192.168.* and 10.* are refused; ip is the sequence of octets
validateIP(env, ip) ==
  IF env = "production"
    THEN ~(\/ ip = <<127, 0, 0, 1>>
           \/ (ip[1] = 192 /\ ip[2] = 168)
           \/ ip[1] = 10)
    ELSE TRUE

\* variant: body sanitization comes before the checks
withSecurity_sanitizeFirst(req, env, secret, limited, options) ==
  LET clean == IF options.sanitizeInput /\ req.body.present
                 THEN sanitizeInput(req.body) ELSE req.body
      hdr == IF options.setHeaders THEN <<"headers">> ELSE <<>>
      san == IF options.sanitizeInput /\ req.body.present
               THEN <<"sanitize">> ELSE <<>>
      ipS == IF options.validateIP THEN <<"ip">> ELSE <<>>
      rlS == IF options.rateLimit THEN <<"rateLimit">> ELSE <<>>
      csS == IF options.csrf THEN <<"csrf">> ELSE <<>>
      c == withCSRFProtection(req.method, secret, req.token)
  IN
  IF options.validateIP /\ ~validateIP(env, req.ip)
    THEN [ret |-> FALSE, sent |-> <<Response(403, "Access denied", "ACCESS_DENIED")>>,
          steps |-> hdr \o san \o ipS, body |-> clean]
  ELSE IF options.rateLimit /\ ~withRateLimit(limited).ret
    THEN [ret |-> FALSE, sent |-> withRateLimit(limited).sent,
          steps |-> hdr \o san \o ipS \o rlS, body |-> clean]
  ELSE IF options.csrf /\ ~c.ret
    THEN [ret |-> FALSE, sent |-> c.sent,
          steps |-> hdr \o san \o ipS \o rlS \o csS, body |-> clean]
  ELSE [ret |-> TRUE, sent |-> <<>>,
        steps |-> hdr \o san \o ipS \o rlS \o csS, body |-> clean]

\* withSecurity(req, res, options): steps lists the checks in the order
\* they ran, sent the responses written to res, body the value of
\* req.body when it returns
withSecurity(req, env, secret, limited, options) ==
  LET hdr == IF options.setHeaders THEN <<"headers">> ELSE <<>>
      ipS == IF options.validateIP THEN <<"ip">> ELSE <<>>
      rlS == IF options.rateLimit THEN <<"rateLimit">> ELSE <<>>
      csS == IF options.csrf THEN <<"csrf">> ELSE <<>>
      c == withCSRFProtection(req.method, secret, req.token)
  IN
  IF options.validateIP /\ ~validateIP(env, req.ip)
    THEN [ret |-> FALSE, sent |-> <<Response(403, "Access denied", "ACCESS_DENIED")>>,
          steps |-> hdr \o ipS, body |-> req.body]
  ELSE IF options.rateLimit /\ ~withRateLimit(limited).ret
    THEN [ret |-> FALSE, sent |-> withRateLimit(limited).sent,
          steps |-> hdr \o ipS \o rlS, body |-> req.body]
  ELSE IF options.csrf /\ ~c.ret
    THEN [ret |-> FALSE, sent |-> c.sent,
          steps |-> hdr \o ipS \o rlS \o csS, body |-> req.body]
  ELSE IF options.sanitizeInput /\ req.body.present
    THEN [ret |-> TRUE, sent |-> <<>>,
          steps |-> hdr \o ipS \o rlS \o csS \o <<"sanitize">>,
          body |-> sanitizeInput(req.body)]
  ELSE [ret |-> TRUE, sent |-> <<>>,
        steps |-> hdr \o ipS \o rlS \o csS, body |-> req.body]

(* --------------------------- product utilities ------------------------- *)
toLowerCase(c) ==
  CASE c = "T" -> "t" [] c = "M" -> "m" [] c = "P" -> "p" [] OTHER -> c

Letters == {"T", "M", "P", "t", "m", "p", "e", "a", "u", "g", "o", "d"}
Digits == <<"0", "1", "2", "3", "4", "5", "6", "7", "8", "9">>
IsDigit(c) == \E d \in 1..10 : Digits[d] = c
DigitValue(c) == (CHOOSE d \in 1..10 : Digits[d] = c) - 1

RECURSIVE LowerCase(_)
LowerCase(s) ==
  IF s = <<>> THEN <<>> ELSE <<toLowerCase(Head(s))>> \o LowerCase(Tail(s))

\* slugify's strict mode keeps letters, digits and white space
RECURSIVE KeepStrict(_)
KeepStrict(s) ==
  IF s = <<>> THEN <<>>
  ELSE (IF Head(s) \in Letters \/ IsDigit(Head(s)) \/ Head(s) = " "
          THEN <<Head(s)>> ELSE <<>>) \o KeepStrict(Tail(s))

\* runs of white space become one "-"
RECURSIVE Hyphenate(_)
Hyphenate(s) ==
  IF s = <<>> THEN <<>>
  ELSE IF Head(s) = " "
    THEN (IF Len(s) > 1 /\ s[2] = " " THEN <<>> ELSE <<"-">>) \o Hyphenate(Tail(s))
  ELSE <<Head(s)>> \o Hyphenate(Tail(s))

\* generateSlug: slugify(text, {lower: true, strict: true, remove: ...})
generateSlug(text) == LowerCase(Hyphenate(Trim(KeepStrict(text))))

\* validateProductData: the checks on name, description and price, in the
\* order of the source
validateProductData(data) ==
  LET e1 == IF Falsy(data.name) \/ Len(Trim(data.name)) = 0
              THEN <<"Product name is required">> ELSE <<>>
      e2 == IF Falsy(data.description) \/ Len(Trim(data.description)) = 0
              THEN <<"Product description is required">> ELSE <<>>
      e3 == IF data.price = NoNumber
              THEN <<"Product price is required">> ELSE <<>>
      e4 == IF ~Falsy(data.name) /\ Len(data.name) > 255
              THEN <<"Product name must be less than 255 characters">> ELSE <<>>
      e5 == IF data.price # NoNumber /\ data.price < 0
              THEN <<"Product price must be positive">> ELSE <<>>
      errors == e1 \o e2 \o e3 \o e4 \o e5
  IN [valid |-> errors = <<>>, errors |-> errors]

(* ------------------------------ getProducts ---------------------------- *)
\* parseInt(value): skips leading white space, reads an optional sign and
\* the digits that follow; NaN when there is no digit
RECURSIVE ParseDigits(_, _)
ParseDigits(s, acc) ==
  IF s = <<>> \/ ~IsDigit(Head(s)) THEN acc
  ELSE ParseDigits(Tail(s), 10 * acc + DigitValue(Head(s)))

parseInt(value) ==
  LET s == TrimStart(value)
      neg == s # <<>> /\ Head(s) = "-"
      body == IF s # <<>> /\ Head(s) \in {"-", "+"} THEN Tail(s) ELSE s
  IN IF body = <<>> \/ ~IsDigit(Head(body))
       THEN [nan |-> TRUE, value |-> 0]
       ELSE [nan |-> FALSE,
             value |-> IF neg THEN 0 - ParseDigits(body, 0) ELSE ParseDigits(body, 0)]

\* parseInt(x) || d : NaN and 0 are falsy
OrDefault(p, d) == IF p.nan \/ p.value = 0 THEN d ELSE p.value

Max(a, b) == IF a > b THEN a ELSE b

DefaultPage == 1
DefaultLimit == 12
LimitCap == 100

\* variant: the limit has no upper bound
Paginate_uncapped(page, limit) ==
  LET pageNum == Max(1, IF page = Undefined THEN DefaultPage
                        ELSE OrDefault(parseInt(page), 1))
      limitNum == Max(1, IF limit = Undefined THEN DefaultLimit
                         ELSE OrDefault(parseInt(limit), DefaultLimit))
  IN [pageNum |-> pageNum, limitNum |-> limitNum, skip |-> (pageNum - 1) * limitNum]

\* pageNum, limitNum and skip of getProducts; a missing query value takes
\* the destructuring default
Paginate(page, limit) ==
  LET pageNum == Max(1, IF page = Undefined THEN DefaultPage
                        ELSE OrDefault(parseInt(page), 1))
      limitNum == Min(LimitCap, Max(1, IF limit = Undefined THEN DefaultLimit
                                       ELSE OrDefault(parseInt(limit), DefaultLimit)))
  IN [pageNum |-> pageNum, limitNum |-> limitNum, skip |-> (pageNum - 1) * limitNum]

\* Math.ceil(total / limitNum) for limitNum > 0
MathCeil(total, limitNum) == (total + limitNum - 1) \div limitNum

\* text contains term, mode: 'insensitive'
Contains(text, term) ==
  /\ text # Undefined
  /\ \E i \in 1..(Len(text) - Len(term) + 1) :
       LowerCase(SubSeq(text, i, i + Len(term) - 1)) = LowerCase(term)

SearchOR(search) ==
  { [kind |-> "contains", field |-> f, term |-> search] :
      f \in {"name", "description", "shortDescription"} }

StockOR ==
  { [kind |-> "untracked", field |-> "trackQuantity", term |-> <<>>],
    [kind |-> "tracked", field |-> "quantity", term |-> <<>>] }

\* the where clause getProducts builds: each assignment to where.OR
\* replaces the one before
WhereOf(query, isAdmin) ==
  LET w1 == [status |-> "", OR |-> {}]
      w2 == IF ~isAdmin THEN [w1 EXCEPT !.status = "ACTIVE"]
            ELSE IF query.status # ""
              THEN [w1 EXCEPT !.status = query.status] ELSE w1
      w3 == IF ~Falsy(query.search)
              THEN [w2 EXCEPT !.OR = SearchOR(query.search)] ELSE w2
      w4 == IF query.inStock = "true" THEN [w3 EXCEPT !.OR = StockOR] ELSE w3
  IN w4

\* one element of an OR list holds of product p
Holds(p, c) ==
  CASE c.kind = "contains" ->
         (CASE c.field = "name" -> Contains(p.name, c.term)
            [] c.field = "description" -> Contains(p.description, c.term)
            [] OTHER -> Contains(p.shortDescription, c.term))
    [] c.kind = "untracked" -> ~p.trackQuantity
    [] OTHER -> p.trackQuantity /\ p.quantity > 0

\* the ORM's reading of a where clause: its keys are conjoined
Matches(p, where) ==
  /\ where.status = "" \/ p.status = where.status
  /\ where.OR = {} \/ \E c \in where.OR : Holds(p, c)

\* findMany({where, orderBy: {createdAt: 'desc'}, skip, take}): products
\* are created in the order of their ids
RECURSIVE Descending(_)
Descending(ids) ==
  IF ids = {} THEN <<>>
  ELSE LET m == CHOOSE x \in ids : \A y \in ids : y <= x
       IN <<m>> \o Descending(ids \ {m})

findMany(table, where, skip, take) ==
  LET ids == Descending({p.id : p \in {q \in table : Matches(q, where)}})
      from == Min(skip + 1, Len(ids) + 1)
      to == Min(skip + take, Len(ids))
  IN [k \in 1..(to - from + 1) |->
        CHOOSE p \in table : p.id = ids[from + k - 1]]

count(table, where) == Cardinality({p \in table : Matches(p, where)})

\* the body of getProducts after the security middleware
getProducts_result(table, query, isAdmin) ==
  LET pg == Paginate(query.page, query.limit)
      where == WhereOf(query, isAdmin)
      total == count(table, where)
      totalPages == MathCeil(total, pg.limitNum)
  IN [where |-> where,
      skip |-> pg.skip,
      data |-> findMany(table, where, pg.skip, pg.limitNum),
      pagination |-> [page |-> pg.pageNum, limit |-> pg.limitNum,
                      total |-> total, totalPages |-> totalPages,
                      hasNext |-> pg.pageNum < totalPages,
                      hasPrev |-> pg.pageNum > 1]]

(* --------------------------- product handlers -------------------------- *)
\* number of requests received in one behaviour
MaxRequests == 2

Product(id, name, slug, short, status, track, quantity) ==
  [id |-> id, name |-> name, slug |-> slug, description |-> <<"d">>,
   shortDescription |-> short, price |-> 5, status |-> status,
   trackQuantity |-> track, quantity |-> quantity]

NoProduct == Product(0, Undefined, Undefined, Undefined, "none", FALSE, 0)

Tea == <<"T", "e", "a">>
Mug == <<"M", "u", "g">>
MugBang == <<"M", "u", "g", "!">>
Pot == <<"P", "o", "t">>

\* the user table and the sessions getSession can return
NoSession == [user |-> "none", role |-> "none"]
Sessions ==
  { NoSession, [user |-> "ada", role |-> "admin"],
    [user |-> "bob", role |-> "customer"], [user |-> "eve", role |-> "admin"] }
UserTable == [ada |-> "admin", bob |-> "customer"]

\* prisma.user.findUnique({where: {id}, select: {id, role}})
user_findUnique(id) ==
  IF id \in DOMAIN UserTable
    THEN [found |-> TRUE, role |-> UserTable[id]]
    ELSE [found |-> FALSE, role |-> "none"]

\* the role check of the handlers of src/api/products.ts: the session's
\* own role is trusted
SessionAdmin(session) ==
  [ok |-> session # NoSession /\ session.role = "admin",
   trace |-> <<"getSession">>]

\* the role check of the handlers behind withSecurity: the user of the
\* session is read from the user table
VerifiedAdmin(session) ==
  IF session = NoSession
    THEN [ok |-> FALSE, trace |-> <<"getSession">>]
    ELSE LET user == user_findUnique(session.user)
         IN [ok |-> user.found /\ user.role = "admin",
             trace |-> <<"getSession", "user.findUnique">>]

IsAdmin(impl, session) ==
  IF impl = "secured" THEN VerifiedAdmin(session) ELSE SessionAdmin(session)

Writers == {"createProduct", "updateProduct", "deleteProduct"}
MethodOf(handler) ==
  CASE handler = "createProduct" -> "POST"
    [] handler = "updateProduct" -> "PUT"
    [] handler = "deleteProduct" -> "DELETE"
    [] OTHER -> "GET"

\* the options each handler passes to withSecurity
OptionsOf(handler) ==
  [rateLimit |-> TRUE, csrf |-> handler \in Writers, sanitizeInput |-> TRUE,
   validateIP |-> TRUE, setHeaders |-> TRUE]

Body(name, description, price) ==
  [present |-> TRUE, name |-> name, description |-> description,
   slug |-> Undefined, price |-> price, status |-> ""]

\* request bodies: a new product, a body with price only, the names of
\* the two existing products, and a name whose slug is that of product 1
Bodies ==
  { Body(Tea, <<"d">>, 5), Body(Undefined, Undefined, 7),
    Body(Mug, <<"d">>, 5), Body(Pot, <<"d">>, 5), Body(MugBang, <<"d">>, 5) }

PublicIP == <<203, 0, 113, 9>>
PrivateIP == <<10, 0, 0, 1>>

\* what the middleware sees of a request: passes, refused address,
\* exhausted rate limit, missing CSRF token
SecurityCases ==
  { [env |-> "production", ip |-> PublicIP, limited |-> FALSE, token |-> "issued"],
    [env |-> "production", ip |-> PrivateIP, limited |-> FALSE, token |-> "issued"],
    [env |-> "production", ip |-> PublicIP, limited |-> TRUE, token |-> "issued"],
    [env |-> "production", ip |-> PublicIP, limited |-> FALSE, token |-> ""] }

Query(page, limit, search, status, inStock) ==
  [page |-> page, limit |-> limit, search |-> search, status |-> status,
   inStock |-> inStock]

NoQuery == Query(Undefined, Undefined, Undefined, "", "")

NoResult == [ret |-> TRUE, sent |-> <<>>, steps |-> <<>>, body |-> NoBody]

NoRequest ==
  [handler |-> "none", impl |-> "none", pc |-> "idle", session |-> NoSession,
   securityPassed |-> TRUE, body |-> NoBody, id |-> 0, slug |-> Undefined,
   query |-> NoQuery, isAdmin |-> FALSE, existing |-> NoProduct,
   slugTaken |-> FALSE, trace |-> <<>>, sent |-> <<>>, wrote |-> FALSE,
   threw |-> "none", data |-> <<>>]

NoSecurity ==
  [phase |-> "idle", method |-> "GET", token |-> "",
   env |-> "development", ip |-> PublicIP, limited |-> FALSE,
   options |-> OptionsOf("getProducts"), body |-> NoBody, result |-> NoResult]

NoListing ==
  [phase |-> "idle", table |-> {}, query |-> NoQuery, isAdmin |-> FALSE,
   result |-> [where |-> [status |-> "", OR |-> {}], skip |-> 0,
               data |-> <<>>,
               pagination |-> [page |-> 1, limit |-> 12, total |-> 0,
                               totalPages |-> 0, hasNext |-> FALSE,
                               hasPrev |-> FALSE]]]

VARIABLES
  security,    \* one call of the security middleware: arguments and result
  listing,     \* one call of getProducts: table, query and result
  products,    \* the product table
  requests,    \* the requests being handled, in order of arrival
  done,        \* history: the request answered last
  arrived      \* number of requests received so far

vars == <<cart, isLoading, error, csrfSecret, pending, draining, issued,
          tokens, last, lastOk, maxOkSeq, pricing, security, listing,
          products, requests, done, arrived>>

\* no request has reached the API
ShopIdle ==
  /\ security = NoSecurity
  /\ listing = NoListing
  /\ products = {}
  /\ requests = <<>>
  /\ done = NoRequest
  /\ arrived = 0

(* ----------------------------- event loop ------------------------------ *)
NoToken == [threw |-> FALSE, isError |-> FALSE, message |-> "", token |-> 0]

NoStep == [kind |-> "init", seq |-> 0, action |-> "none", api |-> "none",
           item |-> 0, qty |-> 0, outcome |-> "none", req |-> NoReq,
           value |-> NoCart, pre |-> [cart |-> NoCart, isLoading |-> FALSE,
                                      error |-> NoError],
           sent |-> 0, tokenThrew |-> FALSE, cartBefore |-> NoCart,
           overlapped |-> FALSE, failedDuring |-> FALSE,
           settledDuring |-> FALSE]

StepOf(kind, r, outcome, req, value) ==
  [kind |-> kind, seq |-> r.seq, action |-> r.action, api |-> r.api,
   item |-> r.item, qty |-> r.qty, outcome |-> outcome, req |-> req,
   value |-> value, pre |-> State, sent |-> r.sent,
   tokenThrew |-> r.tok.threw, cartBefore |-> r.cartBefore,
   overlapped |-> r.overlapped, failedDuring |-> r.failedDuring,
   settledDuring |-> r.settledDuring]

RemoveAt(s, i) == [j \in 1..(Len(s) - 1) |-> IF j < i THEN s[j] ELSE s[j + 1]]

TokenPhase == {i \in 1..Len(pending) : pending[i].phase = "token"}

\* The synchronous part of a store action: the set() that starts it, then
\* the cartApi function up to its first await.  getCart reaches fetch at
\* once; the others call getCSRFToken, whose continuation is a microtask.
Begin(action, api, item, qty, code, st) ==
  /\ issued < MaxCalls
  /\ ~draining
  /\ LET tok == IF NeedsToken(api) THEN getCSRFToken(csrfSecret, tokens)
                                   ELSE NoToken
         req == IF NeedsToken(api) THEN NoReq
                                   ELSE Request(api, item, qty, code, 0)
         r == [seq |-> issued + 1, action |-> action, api |-> api,
               item |-> item, qty |-> qty, code |-> code,
               phase |-> IF NeedsToken(api) THEN "token" ELSE "fetch",
               tok |-> tok,
               sent |-> IF NeedsToken(api) THEN 0 ELSE 1,
               cartBefore |-> cart,
               overlapped |-> pending # <<>>,
               failedDuring |-> FALSE,
               settledDuring |-> FALSE]
     IN /\ cart' = st.cart
        /\ isLoading' = st.isLoading
        /\ error' = st.error
        /\ pending' = Append([i \in 1..Len(pending) |->
                                [pending[i] EXCEPT !.overlapped = TRUE]], r)
        /\ issued' = issued + 1
        /\ tokens' = tok.token
                     + (IF tok.token = 0 THEN tokens ELSE 0)
        /\ last' = StepOf("start", r, "none", req, NoCart)
  /\ UNCHANGED <<csrfSecret, draining, lastOk, maxOkSeq, pricing, security, listing, products,
               requests, done, arrived>>

fetchCart == Begin("fetchCart", "getCart", 0, 0, "", SetStart(State))

addItem(item) ==
  Begin("addItem", "addItem", item.productId, item.quantity, "", SetStart(State))

\* quantity <= 0 runs removeItem synchronously up to its first await
updateQuantity(itemId, quantity) ==
  LET st == SetStart(State) IN
  Begin("updateQuantity", updateQuantity_api(quantity), itemId, quantity, "",
        IF updateQuantity_api(quantity) = "removeItem" THEN SetStart(st) ELSE st)

removeItem(itemId) ==
  Begin("removeItem", "removeItem", itemId, 0, "", SetStart(State))

clearCart == Begin("clearCart", "clearCart", 0, 0, "", SetStart(State))

applyDiscount(code) ==
  Begin("applyDiscount", "applyDiscount", 0, 0, code, SetStart(State))

removeDiscount == Begin("removeDiscount", "removeDiscount", 0, 0, "", SetStart(State))

\* what a settlement leaves behind in the history variables
Settled(i, r, res, outcome, body) ==
  LET st == Done(r, State, res) IN
  /\ cart' = st.cart
  /\ isLoading' = st.isLoading
  /\ error' = st.error
  /\ pending' = RemoveAt([j \in 1..Len(pending) |->
                            [pending[j] EXCEPT !.failedDuring = @ \/ res.threw,
                                               !.settledDuring = TRUE]], i)
  /\ last' = StepOf("settle", r, outcome, NoReq, body)
  /\ lastOk' = IF res.threw THEN lastOk ELSE [seq |-> r.seq, value |-> res.value]
  /\ maxOkSeq' = IF ~res.threw /\ r.seq > maxOkSeq THEN r.seq ELSE maxOkSeq

\* Microtask: the continuation of `await getCSRFToken()` of the oldest
\* invocation waiting for it.  With a token the fetch is issued; without,
\* the rejection reaches the store action's catch.
ResumeAfterToken ==
  /\ TokenPhase # {}
  /\ LET i == CHOOSE k \in TokenPhase : \A m \in TokenPhase : k <= m
         r == pending[i]
     IN /\ draining' = (TokenPhase # {i})
        /\ IF r.tok.threw
             THEN Settled(i, r, TokenFailure(r.tok), "tokenfail", NoCart)
             ELSE LET req == Request(r.api, r.item, r.qty, r.code, r.tok.token)
                      r2 == [r EXCEPT !.phase = "fetch", !.sent = @ + 1]
                  IN /\ pending' = [pending EXCEPT ![i] = r2]
                     /\ last' = StepOf("send", r2, "none", req, NoCart)
                     /\ UNCHANGED <<cart, isLoading, error, lastOk, maxOkSeq>>
  /\ UNCHANGED <<csrfSecret, issued, tokens, pricing, security, listing, products,
               requests, done, arrived>>

\* Task: the fetch of invocation i settles and the store action resumes.
FetchSettles(i, outcome, snapshot) ==
  /\ TokenPhase = {}
  /\ i \in 1..Len(pending)
  /\ pending[i].phase = "fetch"
  /\ outcome \in Outcomes(pending[i].api)
  /\ Settled(i, pending[i], ApiResult(pending[i].api, outcome, snapshot),
             outcome, snapshot)
  /\ UNCHANGED <<csrfSecret, draining, issued, tokens, pricing, security, listing, products,
               requests, done, arrived>>

Init ==
  /\ cart = NoCart
  /\ isLoading = FALSE
  /\ error = NoError
  /\ csrfSecret \in BOOLEAN
  /\ pending = <<>>
  /\ draining = FALSE
  /\ issued = 0
  /\ tokens = 0
  /\ last = NoStep
  /\ lastOk = [seq |-> 0, value |-> NoCart]
  /\ maxOkSeq = 0
  /\ pricing = NoPricing
  /\ ShopIdle

Next ==
  \/ fetchCart
  \/ \E p \in ItemIds, q \in Quantities :
       addItem([productId |-> p, quantity |-> q])
  \/ \E i \in ItemIds, q \in Quantities : updateQuantity(i, q)
  \/ \E i \in ItemIds : removeItem(i)
  \/ clearCart
  \/ \E c \in Codes : applyDiscount(c)
  \/ removeDiscount
  \/ ResumeAfterToken
  \/ \E i \in 1..MaxCalls, o \in {"ok", "notok", "reject", "badjson"} :
       \E s \in (IF o = "ok" THEN Snapshots ELSE {NoCart}) :
         FetchSettles(i, o, s)

Spec == Init /\ [][Next]_vars

(* ---------------------- calls of the pricing utilities ----------------- *)
\* arguments: prices 0, half a cent, 10.00; rates 0 and 8%; shipping 0,
\* 0.004, 5.99; discounts 0, half a cent, 50.00; thresholds none, 0,
\* 25.00, 30.00
Prices == {0, 5000, 10 * Unit}
TaxRates == {0, 80}
ShippingRates == {0, 4000, 599 * Cent}
DiscountAmounts == {0, 5000, 50 * Unit}
Thresholds == {Absent, 0, 25 * Unit, 30 * Unit}

LineItems == [price : Prices, quantity : 1..MaxLineQty]
ItemLists == UNION {[1..n -> LineItems] : n \in 0..MaxLines}

InitPricing ==
  /\ cart = NoCart
  /\ isLoading = FALSE
  /\ error = NoError
  /\ csrfSecret = TRUE
  /\ pending = <<>>
  /\ draining = FALSE
  /\ issued = 0
  /\ tokens = 0
  /\ last = NoStep
  /\ lastOk = [seq |-> 0, value |-> NoCart]
  /\ maxOkSeq = 0
  /\ pricing \in [phase : {"input"}, items : ItemLists, taxRate : TaxRates,
                  shippingRate : ShippingRates,
                  discountAmount : DiscountAmounts,
                  freeShippingThreshold : Thresholds,
                  totals : {NoTotals}, shipping : {0}]
  /\ ShopIdle

\* the order totals of the items under the shop's configuration
CalculateOrderTotals ==
  /\ pricing.phase = "input"
  /\ pricing' = [pricing EXCEPT
                   !.phase = "totals",
                   !.totals = calculateOrderTotals(pricing.items, pricing.taxRate,
                                                   pricing.shippingRate,
                                                   pricing.discountAmount)]
  /\ UNCHANGED <<cartVars, security, listing, products, requests, done, arrived>>

\* the shipping of the items' subtotal under the configured threshold
CalculateShipping ==
  /\ pricing.phase = "input"
  /\ pricing' = [pricing EXCEPT
                   !.phase = "shipping",
                   !.shipping = calculateShipping(ReduceSubtotal(pricing.items, 0),
                                                  pricing.shippingRate,
                                                  pricing.freeShippingThreshold)]
  /\ UNCHANGED <<cartVars, security, listing, products, requests, done, arrived>>

NextPricing == CalculateOrderTotals \/ CalculateShipping

SpecPricing == InitPricing /\ [][NextPricing]_vars

(* ------------------- calls of the security middleware ------------------ *)
\* the cart store as constructed
CartIdle ==
  /\ cart = NoCart
  /\ isLoading = FALSE
  /\ error = NoError
  /\ pending = <<>>
  /\ draining = FALSE
  /\ issued = 0
  /\ tokens = 0
  /\ last = NoStep
  /\ lastOk = [seq |-> 0, value |-> NoCart]
  /\ maxOkSeq = 0
  /\ pricing = NoPricing

Methods == {"GET", "POST", "PUT", "DELETE"}
Tokens == {"", "issued", "forged", "malformed"}
Envs == {"production", "development"}
IPs == {<<127, 0, 0, 1>>, <<192, 168, 1, 5>>, PublicIP}
AllOptions ==
  [rateLimit : BOOLEAN, csrf : BOOLEAN, sanitizeInput : BOOLEAN,
   validateIP : BOOLEAN, setHeaders : BOOLEAN]
\* no body, a body sanitizeInput changes, a body it leaves alone
SecurityBodies ==
  { NoBody, Body(<<" ", "<", "a">>, <<"d">>, 5), Body(Tea, <<"d">>, 5) }

InitSecurity ==
  /\ CartIdle
  /\ csrfSecret \in BOOLEAN
  /\ security \in [phase : {"input"}, method : Methods, token : Tokens,
                   env : Envs, ip : IPs, limited : BOOLEAN,
                   options : AllOptions, body : SecurityBodies,
                   result : {NoResult}]
  /\ listing = NoListing
  /\ products = {}
  /\ requests = <<>>
  /\ done = NoRequest
  /\ arrived = 0

\* withCSRFProtection(req, res) on the request
WithCSRFProtection ==
  /\ security.phase = "input"
  /\ LET c == withCSRFProtection(security.method, csrfSecret, security.token)
     IN security' = [security EXCEPT
                       !.phase = "csrf",
                       !.result = [ret |-> c.ret, sent |-> c.sent,
                                   steps |-> <<"csrf">>, body |-> security.body]]
  /\ UNCHANGED <<cartVars, pricing, listing, products, requests, done, arrived>>

\* withSecurity(req, res, options) on the request
WithSecurity ==
  /\ security.phase = "input"
  /\ security' = [security EXCEPT
                    !.phase = "security",
                    !.result = withSecurity(
                        [method |-> security.method, token |-> security.token,
                         ip |-> security.ip, body |-> security.body],
                        security.env, csrfSecret, security.limited,
                        security.options)]
  /\ UNCHANGED <<cartVars, pricing, listing, products, requests, done, arrived>>

NextSecurity == WithCSRFProtection \/ WithSecurity

SpecSecurity == InitSecurity /\ [][NextSecurity]_vars

(* --------------------------- calls of getProducts ---------------------- *)
TeaPot == <<"t", "e", "a", " ", "p", "o", "t">>

\* sample rows: in stock or not, matching the search term "tea" or not,
\* ACTIVE or not
SampleProducts ==
  { Product(1, Tea, <<"t", "e", "a">>, Undefined, "ACTIVE", TRUE, 0),
    Product(2, Mug, <<"m", "u", "g">>, Undefined, "ACTIVE", FALSE, 0),
    Product(3, Pot, <<"p", "o", "t">>, TeaPot, "DRAFT", TRUE, 2),
    Product(4, MugBang, <<"m", "u", "g", "-", "2">>, TeaPot, "ACTIVE", TRUE, 1) }

PageValues ==
  { Undefined, <<"a", "b", "c">>, <<"0">>, <<"-", "1">>, <<"2">>,
    <<"1", "0", "0", "0", "0", "0", "0">> }
LimitValues ==
  { Undefined, <<"a", "b", "c">>, <<"0">>, <<"-", "5">>, <<"1">>,
    <<"1", "0", "0", "0">> }
Queries ==
  { Query(p, l, s, st, i) :
      p \in PageValues, l \in LimitValues, s \in {Undefined, <<"t", "e", "a">>},
      st \in {"", "DRAFT"}, i \in {"", "true"} }

InitListing ==
  /\ CartIdle
  /\ csrfSecret = TRUE
  /\ security = NoSecurity
  /\ listing \in [phase : {"input"}, table : SUBSET SampleProducts,
                  query : Queries, isAdmin : BOOLEAN,
                  result : {NoListing.result}]
  /\ products = {}
  /\ requests = <<>>
  /\ done = NoRequest
  /\ arrived = 0

\* getProducts on the table, after the middleware and the role check
GetProducts ==
  /\ listing.phase = "input"
  /\ listing' = [listing EXCEPT
                   !.phase = "listed",
                   !.result = getProducts_result(listing.table, listing.query,
                                                 listing.isAdmin)]
  /\ UNCHANGED <<cartVars, pricing, security, products, requests, done, arrived>>

NextListing == GetProducts

SpecListing == InitListing /\ [][NextListing]_vars

(* ------------------------ the product handlers ------------------------- *)
\* the table the handlers start from: one ACTIVE and one DRAFT product
SeedProducts ==
  { Product(1, Mug, <<"m", "u", "g">>, Undefined, "ACTIVE", TRUE, 0),
    Product(2, Pot, <<"p", "o", "t">>, Undefined, "DRAFT", TRUE, 0) }

\* the [id] and [slug] of the routes: existing ones and one that is not
TargetIds == {1, 9}
TargetSlugs == {<<"m", "u", "g">>, <<"p", "o", "t">>, <<"n", "o">>}

\* prisma.product.findUnique({where: {id}})
findById(table, id) ==
  IF \E p \in table : p.id = id
    THEN CHOOSE p \in table : p.id = id ELSE NoProduct

\* prisma.product.findUnique({where: {slug}})
findBySlug(table, slug) ==
  IF \E p \in table : p.slug = slug
    THEN CHOOSE p \in table : p.slug = slug ELSE NoProduct

\* variant: the product itself counts as a user of the slug
findBySlugNotId_any(table, slug, id) == findBySlug(table, slug)

\* prisma.product.findUnique({where: {slug, NOT: {id}}})
findBySlugNotId(table, slug, id) ==
  IF \E p \in table : p.slug = slug /\ p.id # id
    THEN CHOOSE p \in table : p.slug = slug /\ p.id # id ELSE NoProduct

\* @default(cuid()): an id no row has had; rows 1 and 2 are the seed
cuid(table) ==
  1 + (CHOOSE m \in {2} \cup {p.id : p \in table} :
         \A n \in {2} \cup {p.id : p \in table} : n <= m)

\* errorResponse(res, error, status) and successResponse(res, data, status)
Answer(r, status, message) ==
  [r EXCEPT !.pc = "done", !.sent = Append(@, Response(status, message, ""))]

\* a handler from its first line to its first read of the product table;
\* req.body and req.query.id are read once the role check has passed
Entry(r, session, body, id) ==
  LET auth == IsAdmin(r.impl, session)
      a == [r EXCEPT !.session = session, !.isAdmin = auth.ok,
                     !.trace = @ \o auth.trace]
  IN
  CASE r.handler = "getProducts" -> [a EXCEPT !.pc = "findMany"]
    [] r.handler = "getProductBySlug" -> [r EXCEPT !.pc = "findSlug"]
    [] r.handler = "createProduct" ->
         IF ~auth.ok THEN Answer(a, 401, "Unauthorized")
         ELSE IF ~validateProductData(body).valid
           THEN Answer([a EXCEPT !.body = body], 400, "Invalid product data")
         ELSE [a EXCEPT !.pc = "findSlug", !.body = body,
                        !.slug = IF ~Falsy(body.slug) THEN body.slug
                                 ELSE generateSlug(body.name)]
    [] r.handler = "updateProduct" ->
         IF ~auth.ok THEN Answer(a, 401, "Unauthorized")
         ELSE [a EXCEPT !.pc = "findId", !.body = body, !.id = id]
    [] OTHER ->
         IF ~auth.ok THEN Answer(a, 401, "Unauthorized")
         ELSE [a EXCEPT !.pc = "findId", !.id = id]

\* variant: the handler goes on after the middleware has answered
IfSecurityPassed_fallThrough(passed, refused, entered) == entered

\* if (!securityPassed) return
IfSecurityPassed(passed, refused, entered) ==
  IF ~passed THEN refused ELSE entered

\* the request leaves the handler: its record becomes the history
Finish(i, r) ==
  /\ done' = r
  /\ requests' = RemoveAt(requests, i)

Continue(i, r) ==
  /\ requests' = [requests EXCEPT ![i] = r]
  /\ UNCHANGED done

\* A request reaches a handler, which runs up to its first read of the
\* product table: withSecurity (part_002 only), getSession, the user
\* lookup, validation.
Arrive(handler, impl, sc, session, body, id, slug, status) ==
  /\ arrived < MaxRequests
  /\ arrived' = arrived + 1
  /\ LET req == [method |-> MethodOf(handler), token |-> sc.token, ip |-> sc.ip,
                 body |-> body]
         sec == IF impl = "secured"
                  THEN withSecurity(req, sc.env, csrfSecret, sc.limited,
                                    OptionsOf(handler))
                  ELSE [NoResult EXCEPT !.body = body]
         r0 == [NoRequest EXCEPT
                  !.handler = handler, !.impl = impl, !.securityPassed = sec.ret,
                  !.slug = IF handler = "getProductBySlug" THEN slug ELSE Undefined,
                  !.query = IF handler = "getProducts"
                              THEN Query(Undefined, Undefined, Undefined, status, "")
                              ELSE NoQuery,
                  !.trace = IF impl = "secured" THEN <<"withSecurity">> ELSE <<>>,
                  !.sent = sec.sent]
         r1 == IfSecurityPassed(sec.ret, [r0 EXCEPT !.pc = "done"],
                                Entry(r0, session, sec.body, id))
     IN IF r1.pc = "done"
          THEN done' = r1 /\ UNCHANGED requests
          ELSE requests' = Append(requests, r1) /\ UNCHANGED done
  /\ UNCHANGED <<cartVars, pricing, security, listing, products>>

\* createProduct: the slug is looked up, await prisma.product.findUnique
\* getProductBySlug: the product is looked up, then the session is read
FindSlug(i, session) ==
  /\ i \in 1..Len(requests)
  /\ requests[i].pc = "findSlug"
  /\ LET r == requests[i]
         p == findBySlug(products, r.slug)
         f == [r EXCEPT !.existing = p, !.trace = Append(@, "product.findUnique")]
     IN IF r.handler = "createProduct"
          THEN IF p # NoProduct
                 THEN Finish(i, Answer([f EXCEPT !.slugTaken = TRUE], 400,
                                       "Product with this slug already exists"))
                 ELSE Continue(i, [f EXCEPT !.pc = "create"])
          ELSE IF p = NoProduct
                 THEN Finish(i, Answer(f, 404, "Product not found"))
          ELSE IF p.status # "ACTIVE"
                 THEN LET auth == IsAdmin(r.impl, session)
                          a == [f EXCEPT !.session = session, !.isAdmin = auth.ok,
                                         !.trace = @ \o auth.trace]
                      IN IF ~auth.ok
                           THEN Finish(i, Answer(a, 404, "Product not found"))
                           ELSE Finish(i, Answer([a EXCEPT !.data = <<p>>], 200, ""))
          ELSE Finish(i, Answer([f EXCEPT !.session = session,
                                          !.trace = Append(@, "getSession"),
                                          !.data = <<p>>], 200, ""))
  /\ UNCHANGED <<cartVars, pricing, security, listing, products, arrived>>

\* createProduct: await prisma.product.create; the unique index on slug
\* makes the create throw when the slug has been taken meanwhile
Create(i) ==
  /\ i \in 1..Len(requests)
  /\ requests[i].pc = "create"
  /\ LET r == [requests[i] EXCEPT !.trace = Append(@, "product.create")]
         new == [NoProduct EXCEPT
                   !.id = cuid(products), !.name = r.body.name, !.slug = r.slug,
                   !.description = r.body.description, !.price = r.body.price,
                   !.status = IF r.body.status = "" THEN "ACTIVE" ELSE r.body.status,
                   !.trackQuantity = TRUE, !.quantity = 0]
     IN IF findBySlug(products, r.slug) # NoProduct
          THEN /\ Finish(i, Answer([r EXCEPT !.threw = "P2002"], 500,
                                   "Failed to create product"))
               /\ UNCHANGED products
          ELSE /\ products' = products \cup {new}
               /\ Finish(i, Answer([r EXCEPT !.wrote = TRUE, !.data = <<new>>],
                                   201, ""))
  /\ UNCHANGED <<cartVars, pricing, security, listing, arrived>>

\* updateProduct and deleteProduct: the product is looked up by id;
\* updateProduct then validates the body and decides on the slug
FindId(i) ==
  /\ i \in 1..Len(requests)
  /\ requests[i].pc = "findId"
  /\ LET r == requests[i]
         p == findById(products, r.id)
         f == [r EXCEPT !.existing = p, !.trace = Append(@, "product.findUnique")]
     IN IF p = NoProduct
          THEN Finish(i, Answer(f, 404, "Product not found"))
        ELSE IF r.handler = "deleteProduct"
          THEN Continue(i, [f EXCEPT !.pc = "delete"])
        ELSE IF ~validateProductData(r.body).valid
          THEN Finish(i, Answer(f, 400, "Invalid product data"))
        ELSE IF ~Falsy(r.body.name) /\ r.body.name # p.name
          THEN Continue(i, [f EXCEPT !.pc = "findSlugNot",
                                     !.slug = generateSlug(r.body.name)])
        ELSE Continue(i, [f EXCEPT !.pc = "update", !.slug = p.slug])
  /\ UNCHANGED <<cartVars, pricing, security, listing, products, arrived>>

\* updateProduct: is the new slug used by another product
FindSlugNot(i) ==
  /\ i \in 1..Len(requests)
  /\ requests[i].pc = "findSlugNot"
  /\ LET r == [requests[i] EXCEPT !.trace = Append(@, "product.findUnique")]
     IN IF findBySlugNotId(products, r.slug, r.id) # NoProduct
          THEN Finish(i, Answer([r EXCEPT !.slugTaken = TRUE], 400,
                                "Product with this slug already exists"))
          ELSE Continue(i, [r EXCEPT !.pc = "update"])
  /\ UNCHANGED <<cartVars, pricing, security, listing, products, arrived>>

\* updateProduct: await prisma.product.update; it throws when the row is
\* gone or the slug has been taken meanwhile; undefined fields are kept
Update(i) ==
  /\ i \in 1..Len(requests)
  /\ requests[i].pc = "update"
  /\ LET r == [requests[i] EXCEPT !.trace = Append(@, "product.update")]
         old == findById(products, r.id)
         new == [old EXCEPT
                   !.name = IF r.body.name = Undefined THEN @ ELSE r.body.name,
                   !.slug = r.slug,
                   !.description = IF r.body.description = Undefined THEN @
                                   ELSE r.body.description,
                   !.price = IF r.body.price = NoNumber THEN @ ELSE r.body.price,
                   !.status = IF r.body.status = "" THEN @ ELSE r.body.status]
     IN IF old = NoProduct
          THEN /\ Finish(i, Answer([r EXCEPT !.threw = "P2025"], 500,
                                   "Failed to update product"))
               /\ UNCHANGED products
        ELSE IF findBySlugNotId(products, r.slug, r.id) # NoProduct
          THEN /\ Finish(i, Answer([r EXCEPT !.threw = "P2002"], 500,
                                   "Failed to update product"))
               /\ UNCHANGED products
        ELSE /\ products' = (products \ {old}) \cup {new}
             /\ Finish(i, Answer([r EXCEPT !.wrote = TRUE, !.data = <<new>>],
                                 200, ""))
  /\ UNCHANGED <<cartVars, pricing, security, listing, arrived>>

\* deleteProduct: await prisma.product.delete; it throws when the row is
\* gone
Delete(i) ==
  /\ i \in 1..Len(requests)
  /\ requests[i].pc = "delete"
  /\ LET r == [requests[i] EXCEPT !.trace = Append(@, "product.delete")]
         old == findById(products, r.id)
     IN IF old = NoProduct
          THEN /\ Finish(i, Answer([r EXCEPT !.threw = "P2025"], 500,
                                   "Failed to delete product"))
               /\ UNCHANGED products
          ELSE /\ products' = products \ {old}
               /\ Finish(i, Answer([r EXCEPT !.wrote = TRUE], 200, ""))
  /\ UNCHANGED <<cartVars, pricing, security, listing, arrived>>

\* getProducts: await Promise.all([findMany, count])
FindMany(i) ==
  /\ i \in 1..Len(requests)
  /\ requests[i].pc = "findMany"
  /\ LET r == requests[i]
         res == getProducts_result(products, r.query, r.isAdmin)
     IN Finish(i, Answer([r EXCEPT !.data = res.data,
                                   !.trace = @ \o <<"product.findMany",
                                                    "product.count">>],
                         200, ""))
  /\ UNCHANGED <<cartVars, pricing, security, listing, products, arrived>>

InitProducts ==
  /\ CartIdle
  /\ csrfSecret = TRUE
  /\ security = NoSecurity
  /\ listing = NoListing
  /\ products = SeedProducts
  /\ requests = <<>>
  /\ done = NoRequest
  /\ arrived = 0

\* the requests of the routes; a handler without withSecurity sees nothing
\* of what the middleware looks at
CasesOf(impl) ==
  IF impl = "secured" THEN SecurityCases
  ELSE {sc \in SecurityCases : sc.ip = PublicIP /\ ~sc.limited /\ sc.token = "issued"}

getProducts(impl, sc, session, status) ==
  Arrive("getProducts", impl, sc, session, NoBody, 0, Undefined, status)

createProduct(impl, sc, session, body) ==
  Arrive("createProduct", impl, sc, session, body, 0, Undefined, "")

updateProduct(impl, sc, session, body, id) ==
  Arrive("updateProduct", impl, sc, session, body, id, Undefined, "")

deleteProduct(impl, sc, session, id) ==
  Arrive("deleteProduct", impl, sc, session, NoBody, id, Undefined, "")

getProductBySlug(impl, sc, slug) ==
  Arrive("getProductBySlug", impl, sc, NoSession, NoBody, 0, slug, "")

\* the requests and steps of one copy of the handlers
NextOf(impl) ==
  \/ \E sc \in CasesOf(impl), s \in Sessions, st \in {"", "DRAFT"} :
       getProducts(impl, sc, s, st)
  \/ \E sc \in CasesOf(impl), s \in Sessions, b \in Bodies :
       createProduct(impl, sc, s, b)
  \/ \E sc \in CasesOf(impl), s \in Sessions, b \in Bodies, id \in TargetIds :
       updateProduct(impl, sc, s, b, id)
  \/ \E sc \in CasesOf(impl), s \in Sessions, id \in TargetIds :
       deleteProduct(impl, sc, s, id)
  \/ \E sc \in CasesOf(impl), slug \in TargetSlugs :
       getProductBySlug(impl, sc, slug)
  \/ \E i \in 1..MaxRequests, s \in Sessions : FindSlug(i, s)
  \/ \E i \in 1..MaxRequests : Create(i)
  \/ \E i \in 1..MaxRequests : FindId(i)
  \/ \E i \in 1..MaxRequests : FindSlugNot(i)
  \/ \E i \in 1..MaxRequests : Update(i)
  \/ \E i \in 1..MaxRequests : Delete(i)
  \/ \E i \in 1..MaxRequests : FindMany(i)

\* the handlers of part_002, behind withSecurity
NextProducts == NextOf("secured")

SpecProducts == InitProducts /\ [][NextProducts]_vars

\* the handlers of src/api/products.ts
NextPlainProducts == NextOf("plain")

SpecPlainProducts == InitProducts /\ [][NextPlainProducts]_vars

(* ------------------------------ properties ----------------------------- *)
SettledStep == last.kind = "settle"
SucceededStep == last.kind = "settle" /\ last.outcome = "ok"
FailedStep == last.kind = "settle" /\ last.outcome # "ok"
Mutating == {"addItem", "updateQuantity", "removeItem", "clearCart",
             "applyDiscount", "removeDiscount"}

\* C1 (as stated): right after any successful settlement error is absent and
\* isLoading is false, whatever else started or settled meanwhile.
C1_ErrorAbsentAfterSuccess ==
  SucceededStep => (error = NoError /\ isLoading = FALSE)

\* C1 (amended): right after any successful settlement isLoading is false
\* and error is what it was before the settlement; error is absent unless
\* another operation failed while this one was pending.
C1_SuccessLowersLoading ==
  SucceededStep =>
    /\ isLoading = FALSE
    /\ error = last.pre.error
    /\ (~last.failedDuring => error = NoError)

C1_Witness ==
  /\ SucceededStep
  /\ last.failedDuring
  /\ error # NoError
  /\ isLoading = FALSE
  /\ cart # NoCart

\* C2: a failing operation (non-OK response, rejected fetch, unparsable
\* body, token failure) leaves cart as it was at its settlement, lowers
\* isLoading and sets error; when nothing overlapped it, cart equals the
\* cart at the time of the call.
C2_FailureKeepsCart ==
  FailedStep =>
    /\ cart = last.pre.cart
    /\ isLoading = FALSE
    /\ error # NoError
    /\ (~last.overlapped => cart = last.cartBefore)

C2_Witness ==
  /\ FailedStep
  /\ ~last.overlapped
  /\ cart # NoCart
  /\ cart = last.cartBefore
  /\ error # NoError

\* the result removeItem's cartApi call hands to the store for a settlement
RemoveResultOf(step) ==
  IF step.outcome = "tokenfail"
    THEN TokenFailure(getCSRFToken(FALSE, 0))
    ELSE ApiResult("removeItem", step.outcome, step.value)

\* C3: updateQuantity(itemId, q) with q <= 0 runs the remove path: it starts
\* like removeItem, its only request is the DELETE of that item, and its
\* settlement leaves the state removeItem(itemId) leaves for the same
\* outcome, on success and on failure.
C3_UpdateToRemove ==
  (last.action = "updateQuantity" /\ last.qty <= 0) =>
    /\ last.api = "removeItem"
    /\ last.req.method # "PUT"
    /\ last.sent <= 1
    /\ (last.kind = "start" => State = SetStart(last.pre))
    /\ (last.kind = "send" =>
          last.req = Request("removeItem", last.item, 0, "", last.req.csrf))
    /\ (last.kind = "settle" =>
          State = removeItem_done(last.pre, RemoveResultOf(last)))

C3_Witness ==
  /\ SucceededStep
  /\ last.action = "updateQuantity"
  /\ last.qty = 0
  /\ last.sent = 1
  /\ cart = last.value
  /\ last.pre.cart # NoCart
  /\ last.pre.cart # cart

\* C4 (as stated): addItem with a quantity that is not positive is rejected
\* locally: it issues no request.
C4_AddItemValidatesQuantity ==
  (last.action = "addItem" /\ last.qty <= 0) =>
    (last.req = NoReq /\ last.sent = 0)

\* C5: every mutating operation generates its token before the request and
\* attaches it; tokens of different invocations differ; when generation
\* fails no request is issued, cart is unchanged, isLoading ends false and
\* error is the security-configuration message, not the operation's
\* remote-failure message.
C5_TokenOrNoRequest ==
  /\ (last.kind = "start" /\ last.action \in Mutating) =>
       (last.req = NoReq /\ last.sent = 0 /\ last.tokenThrew = ~csrfSecret)
  /\ (last.req # NoReq /\ last.action \in Mutating) =>
       /\ last.req.csrf > 0
       /\ last.req.csrf <= tokens
       /\ \A i \in 1..Len(pending) :
            pending[i].seq # last.seq => pending[i].tok.token # last.req.csrf
  /\ \A i \in 1..Len(pending) :
       (pending[i].phase = "fetch" /\ pending[i].action \in Mutating) =>
         pending[i].tok.token > 0
  /\ (SettledStep /\ last.tokenThrew) =>
       /\ last.outcome = "tokenfail"
       /\ last.sent = 0
       /\ cart = last.pre.cart
       /\ isLoading = FALSE
       /\ error = SecurityConfigMsg
       /\ error # FailMsg(last.api)
       /\ \A a \in Mutating : error # FailMsg(a)

C5_Witness ==
  /\ SettledStep
  /\ last.outcome = "tokenfail"
  /\ last.action = "addItem"
  /\ last.sent = 0
  /\ cart # NoCart
  /\ error = SecurityConfigMsg

\* C6: operations are not sequenced: cart is always the result of the most
\* recent successful settlement, also when that operation was issued before
\* one that had already succeeded.
C6_LastSettlementWins ==
  /\ cart = lastOk.value
  /\ (SucceededStep => lastOk.seq = last.seq)
  /\ (SucceededStep /\ last.seq < maxOkSeq /\ last.action # "clearCart") =>
       cart = last.value

C6_Witness ==
  /\ pending = <<>>
  /\ SucceededStep
  /\ last.seq < maxOkSeq
  /\ cart = last.value
  /\ last.pre.cart # NoCart
  /\ last.pre.cart # cart

\* C7 (as stated): while a remote call is in flight isLoading is true.
C7_LoadingWhilePending ==
  (\E i \in 1..Len(pending) : pending[i].phase = "fetch") => isLoading = TRUE

\* C7 (amended): while an operation is pending and no operation has settled
\* since it started, isLoading is true.
C7_LoadingUntilASettlement ==
  \A i \in 1..Len(pending) : ~pending[i].settledDuring => isLoading = TRUE

C7_Witness ==
  /\ Len(pending) = 2
  /\ pending[1].phase = "fetch"
  /\ pending[2].phase = "fetch"
  /\ ~pending[1].settledDuring
  /\ isLoading = TRUE

\* C8: every operation raises isLoading and clears error when it starts and
\* both still hold when its request is issued; an invocation whose token
\* was generated issues exactly one request (a DELETE, never a PUT, for
\* updateQuantity with q <= 0), one whose token failed issues none; every
\* settlement lowers isLoading.
C8_OneRequestPerInvocation ==
  /\ last.kind = "start" => (isLoading = TRUE /\ error = NoError)
  /\ last.req # NoReq =>
       (isLoading = TRUE /\ error = NoError /\ last.sent = 1)
  /\ \A i \in 1..Len(pending) :
       pending[i].sent = (IF pending[i].phase = "fetch" THEN 1 ELSE 0)
  /\ SettledStep =>
       /\ isLoading = FALSE
       /\ last.sent = (IF last.tokenThrew THEN 0 ELSE 1)
  /\ (last.req # NoReq /\ last.action = "updateQuantity") =>
       last.req.method = (IF last.qty <= 0 THEN "DELETE" ELSE "PUT")

C8_Witness ==
  /\ SettledStep
  /\ last.action = "updateQuantity"
  /\ last.qty < 0
  /\ last.sent = 1
  /\ last.pre.isLoading = TRUE
  /\ isLoading = FALSE

\* C9: a successful settlement of fetchCart, addItem, updateQuantity,
\* removeItem, applyDiscount or removeDiscount makes cart exactly the
\* snapshot in the response; starting an operation and issuing its request
\* leave cart unchanged.
C9_SnapshotReplacesCart ==
  /\ (SucceededStep /\ last.action # "clearCart") =>
       (cart = last.value /\ cart \in Snapshots)
  /\ last.kind \in {"start", "send"} => cart = last.pre.cart

C9_Witness ==
  /\ SucceededStep
  /\ last.action = "applyDiscount"
  /\ last.pre.cart \in Snapshots
  /\ Len(last.pre.cart.items) > 0
  /\ cart = last.value
  /\ cart # last.pre.cart

\* C10: cart goes from a snapshot to absent only at a successful settlement
\* of clearCart, and a successful clearCart leaves cart absent.
C10_OnlyClearEmptiesCart ==
  /\ (last.pre.cart # NoCart /\ cart = NoCart) =>
       (SucceededStep /\ last.action = "clearCart")
  /\ (SucceededStep /\ last.action = "clearCart") => cart = NoCart

C10_Witness ==
  /\ SucceededStep
  /\ last.action = "clearCart"
  /\ last.pre.cart # NoCart
  /\ cart = NoCart

\* C11 (as stated): after a remote or network failure error is the
\* operation's generic message, never the message of the underlying cause.
C11_GenericFailureMessage ==
  (FailedStep /\ last.outcome \in {"notok", "reject", "badjson"}) =>
    /\ error = FailMsg(last.api)
    /\ error \notin {NetworkCause, JsonCause}

\* C12: isLoading goes from true to false only in a step that settles an
\* invocation: nothing else (no timeout, cancellation or retry) lowers it,
\* so it stays true while a call hangs and nothing settles.
C12_OnlySettlementLowersLoading ==
  [][(isLoading = TRUE /\ isLoading' = FALSE) =>
       (last'.kind = "settle" /\ Len(pending') = Len(pending) - 1)]_vars

C12_Witness ==
  /\ issued = MaxCalls
  /\ Len(pending) = 1
  /\ pending[1].phase = "fetch"
  /\ pending[1].sent = 1
  /\ ~pending[1].settledDuring
  /\ last.kind # "settle"
  /\ isLoading = TRUE

\* the sum of the quantities of a cart's lines, line by line
QuantityOfLines(c) ==
  LET n == Len(c.items)
      upTo[k \in 0..n] == IF k = 0 THEN 0 ELSE upTo[k - 1] + c.items[k].quantity
  IN upTo[n]

\* C13: in every reachable state the item count is the sum of quantity over
\* cart.items (0 without a cart), the cart total is cart.total (0 without a
\* cart), and the loading and error selectors return isLoading and error.
C13_SelectorsReadState ==
  /\ useCartItemCount(State) = (IF cart = NoCart THEN 0 ELSE QuantityOfLines(cart))
  /\ useCartTotal(State) = (IF cart = NoCart THEN 0 ELSE cart.total)
  /\ useCartLoading(State) = isLoading
  /\ useCartError(State) = error
  /\ useCartItems(State) = cart.items

C13_Witness ==
  /\ cart # NoCart
  /\ Len(cart.items) = 2
  /\ useCartItemCount(State) = 4
  /\ useCartTotal(State) = 45
  /\ useCartLoading(State) = TRUE
  /\ useCartError(State) = NoError

(* ------------------------- pricing properties -------------------------- *)
TotalsStep == pricing.phase = "totals"
ShippingStep == pricing.phase = "shipping"

\* the exact sum of price x quantity over the lines, line by line
ExactSubtotal ==
  LET its == pricing.items
      n == Len(its)
      upTo[k \in 0..n] ==
        IF k = 0 THEN 0 ELSE upTo[k - 1] + its[k].price * its[k].quantity
  IN upTo[n]

\* an amount rounded once to cents, halves up
ToCents(x) == ((2 * x + Cent) \div (2 * Cent)) * Cent

WholeCents(x) == x % Cent = 0

WholeCentInputs ==
  /\ \A k \in 1..Len(pricing.items) : WholeCents(pricing.items[k].price)
  /\ WholeCents(pricing.shippingRate)
  /\ WholeCents(pricing.discountAmount)

\* items [{10.00 x 3}], taxRate 0.08, shippingRate 5.99, discount 0
ScenarioInputs ==
  /\ pricing.items = <<[price |-> 10 * Unit, quantity |-> 3]>>
  /\ pricing.taxRate = 80
  /\ pricing.shippingRate = 599 * Cent
  /\ pricing.discountAmount = 0

\* C14 (as stated): the order totals have shipping 0 when a positive
\* free-shipping threshold is configured and the subtotal reaches it, and
\* the shipping rate otherwise.
C14_TotalsHonourThreshold ==
  TotalsStep =>
    pricing.totals.shipping =
      (IF pricing.freeShippingThreshold > 0
            /\ ExactSubtotal >= pricing.freeShippingThreshold
         THEN 0 ELSE ToCents(pricing.shippingRate))

\* C15: for non-negative items, rate, shipping and discount the returned
\* total is never negative, also when the discount exceeds the subtotal.
C15_TotalNeverNegative ==
  TotalsStep => pricing.totals.total >= 0

C15_Witness ==
  /\ TotalsStep
  /\ ExactSubtotal > 0
  /\ pricing.discountAmount > ExactSubtotal + pricing.shippingRate
  /\ pricing.taxRate = 0
  /\ pricing.totals.total = ToCents(pricing.shippingRate)

C17_SingleRounding ==
  TotalsStep =>
    LET discount == IF pricing.discountAmount <= ExactSubtotal
                      THEN pricing.discountAmount ELSE ExactSubtotal
        \* prices are in thousandths of the unit, so the division is exact
        tax == (ExactSubtotal \div RateUnit) * pricing.taxRate
        exact == ExactSubtotal + tax + pricing.shippingRate - discount
    IN /\ ExactSubtotal % RateUnit = 0
       /\ pricing.totals.total = ToCents(exact)

\* C18 (as stated): the returned fields always satisfy total = subtotal +
\* tax + shipping - discount.
C18_FieldsAddUp ==
  TotalsStep =>
    pricing.totals.total = pricing.totals.subtotal + pricing.totals.tax
                           + pricing.totals.shipping - pricing.totals.discount

\* C18 (amended): when prices, shipping rate and discount amount are whole
\* cents the returned fields satisfy total = subtotal + tax + shipping -
\* discount; items [{10.00 x 3}], rate 0.08, shipping 5.99, discount 0 give
\* subtotal 30.00, tax 2.40, shipping 5.99, total 38.39.
C18_WholeCentFieldsAddUp ==
  TotalsStep =>
    /\ WholeCentInputs =>
         pricing.totals.total = pricing.totals.subtotal + pricing.totals.tax
                                + pricing.totals.shipping - pricing.totals.discount
    /\ ScenarioInputs =>
         pricing.totals = [subtotal |-> 30 * Unit, tax |-> 240 * Cent,
                           shipping |-> 599 * Cent, discount |-> 0,
                           total |-> 3839 * Cent]

C18_Witness ==
  /\ TotalsStep
  /\ ScenarioInputs
  /\ WholeCentInputs
  /\ pricing.totals.total = 3839 * Cent
  /\ pricing.totals.tax = 240 * Cent

\* C19: calculateShipping returns 0 when the threshold is positive and the
\* subtotal is at least the threshold (equal counts), and the shipping rate
\* in every other case, an absent or zero threshold included.
C19_ShippingThreshold ==
  ShippingStep =>
    /\ (pricing.freeShippingThreshold \in {Absent, 0}) =>
         pricing.shipping = pricing.shippingRate
    /\ (pricing.freeShippingThreshold > 0
          /\ ExactSubtotal >= pricing.freeShippingThreshold) =>
         pricing.shipping = 0
    /\ (pricing.freeShippingThreshold > 0
          /\ ExactSubtotal < pricing.freeShippingThreshold) =>
         pricing.shipping = pricing.shippingRate

C19_Witness ==
  /\ ShippingStep
  /\ pricing.freeShippingThreshold = 30 * Unit
  /\ ExactSubtotal = pricing.freeShippingThreshold
  /\ pricing.shippingRate = 599 * Cent
  /\ pricing.shipping = 0

\* C20 (as stated): the returned subtotal is the exact sum of price x
\* quantity over the items.
C20_SubtotalExact ==
  TotalsStep => pricing.totals.subtotal = ExactSubtotal

\* C20 (amended): the returned subtotal is the sum of price x quantity over
\* the items rounded to cents (halves up); it is the exact sum when every
\* price is in whole cents, and 0 for the empty list.
C20_SubtotalRoundedToCents ==
  TotalsStep =>
    /\ pricing.totals.subtotal = ToCents(ExactSubtotal)
    /\ (\A k \in 1..Len(pricing.items) : WholeCents(pricing.items[k].price)) =>
         pricing.totals.subtotal = ExactSubtotal
    /\ pricing.items = <<>> => pricing.totals.subtotal = 0

C20_Witness ==
  /\ TotalsStep
  /\ Len(pricing.items) = 2
  /\ pricing.items[1].price = 10 * Unit
  /\ pricing.items[2].price = 5000
  /\ pricing.items[2].quantity = 1
  /\ pricing.totals.subtotal = ExactSubtotal + 5000

(* ------------------- security middleware properties -------------------- *)
CsrfStep == security.phase = "csrf"
SecurityStep == security.phase = "security"

\* C21: for a POST, PUT or DELETE request withCSRFProtection returns true
\* exactly when the secret is configured, the x-csrf-token header is
\* present and verify returns true, and then sends nothing; otherwise it
\* returns false after sending exactly one response: 500 when the secret
\* is missing, else 403.
C21_CSRFDecision ==
  (CsrfStep /\ security.method \in {"POST", "PUT", "DELETE"}) =>
    LET v == csrfTokens_verify(security.token)
        accepted == csrfSecret /\ security.token # "" /\ ~v.threw /\ v.value
        res == security.result
    IN /\ res.ret = accepted
       /\ res.ret => res.sent = <<>>
       /\ ~res.ret =>
            /\ Len(res.sent) = 1
            /\ res.sent[1].status = IF csrfSecret THEN 403 ELSE 500

C21_Witness ==
  /\ CsrfStep
  /\ security.method = "DELETE"
  /\ csrfSecret
  /\ security.token = "forged"
  /\ ~security.result.ret
  /\ security.result.sent = <<Response(403, "Invalid CSRF token", "CSRF_TOKEN_INVALID")>>

\* the checks withSecurity runs for the request when none fails
EnabledChecks ==
  (IF security.options.setHeaders THEN <<"headers">> ELSE <<>>)
  \o (IF security.options.validateIP THEN <<"ip">> ELSE <<>>)
  \o (IF security.options.rateLimit THEN <<"rateLimit">> ELSE <<>>)
  \o (IF security.options.csrf THEN <<"csrf">> ELSE <<>>)
  \o (IF security.options.sanitizeInput /\ security.body.present
        THEN <<"sanitize">> ELSE <<>>)

CheckFails(check) ==
  CASE check = "ip" -> ~validateIP(security.env, security.ip)
    [] check = "rateLimit" -> security.limited
    [] check = "csrf" ->
         ~withCSRFProtection(security.method, csrfSecret, security.token).ret
    [] OTHER -> FALSE

\* C27: withSecurity runs the enabled checks in the order headers, IP,
\* rate limit, CSRF, sanitization and stops at the first that fails; it
\* returns false exactly when it has sent a response, sends at most one,
\* and the body is sanitized only when every enabled check has passed.
C27_SecurityOrder ==
  SecurityStep =>
    LET res == security.result
        n == Len(res.steps)
    IN /\ n <= Len(EnabledChecks)
       /\ res.steps = SubSeq(EnabledChecks, 1, n)
       /\ \A k \in 1..n : CheckFails(res.steps[k]) <=> (k = n /\ ~res.ret)
       /\ res.ret => n = Len(EnabledChecks)
       /\ Len(res.sent) = IF res.ret THEN 0 ELSE 1
       /\ ~res.ret => res.body = security.body
       /\ res.body = IF res.ret /\ security.options.sanitizeInput
                          /\ security.body.present
                       THEN sanitizeInput(security.body) ELSE security.body

C27_Witness ==
  /\ SecurityStep
  /\ security.options = [rateLimit |-> TRUE, csrf |-> TRUE, sanitizeInput |-> TRUE,
                         validateIP |-> TRUE, setHeaders |-> TRUE]
  /\ security.body.present
  /\ sanitizeInput(security.body) # security.body
  /\ security.result.steps = <<"headers", "ip", "rateLimit", "csrf">>
  /\ ~security.result.ret
  /\ security.result.body = security.body
  /\ Len(security.result.sent) = 1

(* ----------------------- product handler properties -------------------- *)
\* the requests being handled and the one answered last
Seen == {requests[i] : i \in 1..Len(requests)} \cup ({done} \ {NoRequest})

\* the session belongs to a user the user table lists as admin
TableAdmin(session) ==
  session.user \in DOMAIN UserTable /\ UserTable[session.user] = "admin"

\* the step answered a request
Answered == done' # done

NotFound == <<Response(404, "Product not found", "")>>
SlugExists == <<Response(400, "Product with this slug already exists", "")>>
InvalidData == <<Response(400, "Invalid product data", "")>>

C22_Refused ==
  /\ \A r \in Seen : r.impl = "secured" => r.trace[1] = "withSecurity"
  /\ \A i \in 1..Len(requests) : requests[i].securityPassed
  /\ ~done.securityPassed =>
       /\ done.trace = <<"withSecurity">>
       /\ Len(done.sent) = 1
       /\ done.sent[1].status \in {403, 429, 500}
       /\ ~done.wrote

C23_AdminOnlyWrites ==
  \A r \in Seen :
    r.handler \in Writers =>
      /\ (r.pc # "done" \/ r.wrote) => TableAdmin(r.session)
      /\ (r.pc = "done" /\ r.securityPassed /\ ~TableAdmin(r.session)) =>
           (r.sent = <<Response(401, "Unauthorized", "")>> /\ ~r.wrote)

\* C24: a requester the user table does not list as admin receives
\* ACTIVE products only, and getProductBySlug answers a product that is
\* not ACTIVE as it answers a slug no product has: 404 'Product not found'.
C24_NonActiveHidden ==
  (done.handler \in {"getProducts", "getProductBySlug"}
     /\ ~TableAdmin(done.session)) =>
    /\ \A k \in 1..Len(done.data) : done.data[k].status = "ACTIVE"
    /\ (done.handler = "getProductBySlug" /\ done.securityPassed
          /\ done.existing.status # "ACTIVE") =>
         done.sent = NotFound

\* C25: the slug stays unique, and a createProduct whose slug is in use
\* when it looks or when it writes is answered 400 'Product with this
\* slug already exists'.
C25_DuplicateSlugIs400 ==
  /\ \A p, q \in products : p.slug = q.slug => p = q
  /\ (done.handler = "createProduct" /\ (done.slugTaken \/ done.threw = "P2002")) =>
       done.sent = SlugExists

\* the body supplies price only, in range
PriceOnly(body) ==
  /\ body.present
  /\ body.name = Undefined
  /\ body.description = Undefined
  /\ body.price # NoNumber
  /\ body.price >= 0

\* C29: updateProduct on an existing product by an admin with a body
\* that supplies only price, in range, is not answered 400 'Invalid
\* product data'.
C29_PartialUpdateAccepted ==
  (done.handler = "updateProduct" /\ done.existing # NoProduct
     /\ PriceOnly(done.body)) =>
    done.sent # InvalidData

C30_Lookup ==
  \A r \in Seen :
    /\ (r.handler \in {"updateProduct", "deleteProduct"} /\ r.pc = "done"
          /\ r.id # 0 /\ r.existing = NoProduct) =>
         (r.sent = NotFound /\ ~r.wrote)
    /\ (r.handler = "updateProduct" /\ r.pc \in {"findSlugNot", "update"}) =>
         r.slug = IF ~Falsy(r.body.name) /\ r.body.name # r.existing.name
                    THEN generateSlug(r.body.name) ELSE r.existing.slug
    /\ (r.handler = "updateProduct" /\ r.pc = "update"
          /\ r.slug # r.existing.slug) =>
         r.body.name # r.existing.name
    /\ (r.handler = "updateProduct" /\ r.slugTaken) =>
         (r.sent = SlugExists /\ ~r.wrote)

\* the step answered an updateProduct that had looked for its new slug
SlugChecked ==
  /\ Answered
  /\ done'.handler = "updateProduct"
  /\ done'.trace[Len(done'.trace)] = "product.findUnique"
  /\ done'.slug # Undefined

ListedStep == listing.phase = "listed"

MatchesSearch(p, term) ==
  \/ Contains(p.name, term)
  \/ Contains(p.description, term)
  \/ Contains(p.shortDescription, term)

InStock(p) == ~p.trackQuantity \/ p.quantity > 0

\* C26: when search and inStock=true are both supplied, every returned
\* product matches the search term in name, description or short
\* description and is in stock.
C26_FiltersConjoined ==
  (ListedStep /\ ~Falsy(listing.query.search) /\ listing.query.inStock = "true") =>
    \A k \in 1..Len(listing.result.data) :
      /\ MatchesSearch(listing.result.data[k], listing.query.search)
      /\ InStock(listing.result.data[k])

====
